---- MODULE Spec2Model ----
(***************************************************************************)
(* codex-mcp-async: src/codex_mcp_server.py                                *)
(*                                                                         *)
(* The server reads one JSON-RPC request per input line and answers it     *)
(* before it reads the next one.  Background tasks are detached processes  *)
(* that write into two capture files; a status check infers liveness from  *)
(* the modification times of these files.                                  *)
(*                                                                         *)
(* Text is modelled as a sequence of tokens, a path as a sequence of       *)
(* characters, time as whole seconds of one non-decreasing clock.          *)
(***************************************************************************)
EXTENDS Integers, Sequences, FiniteSets, TLC

\* ---------------------------------------------------------------- bounds

\* background tasks launched in one behaviour of SpecTasks
MaxLaunches == 2
\* chunks one background process writes before it exits
MaxWrites == 1
\* tokens of a stderr text handed to the extraction
MaxLen == 6

\* -------------------------------------------------------------- constants

\* line 117: idle_time < 10
IdleThreshold == 10

\* Python's None
None == "None"

\* ------------------------------------------------------------------ text

\* str.strip() treats these tokens as whitespace
Whitespace == {" ", "\n"}

RECURSIVE LStrip(_)
LStrip(s) ==
    IF s # <<>> /\ Head(s) \in Whitespace THEN LStrip(Tail(s)) ELSE s

RECURSIVE RStrip(_)
RStrip(s) ==
    IF s # <<>> /\ s[Len(s)] \in Whitespace
    THEN RStrip(SubSeq(s, 1, Len(s) - 1))
    ELSE s

\* str.strip()
Strip(s) == RStrip(LStrip(s))

\* positions at which  codex\n(.+?)  can start to match: the literal, a
\* newline and at least one more token
MarkerStarts(s) ==
    {i \in 1..Len(s) : /\ i + 2 <= Len(s)
                       /\ s[i] = "codex"
                       /\ s[i + 1] = "\n"}

Min(S) == CHOOSE x \in S : \A y \in S : x <= y

Max(S) == CHOOSE x \in S : \A y \in S : x >= y

\* re.search(r'codex\n(.+?)(?:tokens used|\Z)', stderr, re.DOTALL): the
\* leftmost start, then the shortest non-empty group that is followed by the
\* phrase or by the end of the text.  <<>> when nothing matches, else
\* << group(1) >>.
SearchMatch(stderr) ==
    IF MarkerStarts(stderr) = {} THEN <<>>
    ELSE LET i == Min(MarkerStarts(stderr))
             ends == {j \in (i + 3)..(Len(stderr) + 1) :
                          j = Len(stderr) + 1 \/ stderr[j] = "tokens used"}
         IN  << SubSeq(stderr, i + 2, Min(ends) - 1) >>

NoOutput == << "No output from Codex" >>

\* an extraction that looks at stderr first
ExtractPrefersStderr(stdout, stderr) ==
    LET found == IF SearchMatch(stderr) # <<>>
                 THEN Strip(SearchMatch(stderr)[1])
                 ELSE <<>>
        result == IF found # <<>> THEN found ELSE Strip(stdout)
    IN  IF result # <<>> THEN result ELSE NoOutput

\* extract_result_from_codex_output
extract_result_from_codex_output(stdout, stderr) ==
    LET first == Strip(stdout)
        result == IF first = <<>> /\ stderr # <<>> /\ SearchMatch(stderr) # <<>>
                  THEN Strip(SearchMatch(stderr)[1])
                  ELSE first
    IN  IF result # <<>> THEN result ELSE NoOutput

\* ----------------------------------------------------------------- paths

\* TASK_DIR, one directory below the root
TASK_DIR == << "/", "t" >>

\* TASK_DIR / task_id: an empty string gives the directory itself, an
\* absolute string replaces it
JoinPath(dir, s) ==
    IF s = <<>> THEN dir
    ELSE IF s[1] = "/" THEN s
    ELSE dir \o << "/" >> \o s

\* PurePath.name: what follows the last separator
PathName(p) ==
    LET seps == {i \in 1..Len(p) : p[i] = "/"}
    IN  IF seps = {} THEN p ELSE SubSeq(p, Max(seps) + 1, Len(p))

\* PurePath.suffix: from the last dot of the name, unless that dot is the
\* first or the last character of the name
PathSuffix(p) ==
    LET name == PathName(p)
        dots == {i \in 1..Len(name) : name[i] = "."}
    IN  IF dots # {} /\ Max(dots) > 1 /\ Max(dots) < Len(name)
        THEN SubSeq(name, Max(dots), Len(name))
        ELSE <<>>

\* with_suffix raises ValueError on a path with an empty name
HasName(p) == PathName(p) # <<>>

\* with_suffix: the path without its suffix, to which '.stdout', '.stderr'
\* or '.meta' is then appended
Stem(p) == SubSeq(p, 1, Len(p) - Len(PathSuffix(p)))

\* task_path of a task id string
TaskPath(task_id) == JoinPath(TASK_DIR, task_id)


\* ---------------------------------------------------------------- inputs

\* str(uuid.uuid4())[:8]: eight characters of a random value, here one
\* character out of two
Uuids == { << "a" >>, << "b" >> }

\* the task_id strings a caller may send: the empty string, the ids a launch
\* can return, an id with a dotted suffix, a lone path separator
IdStrings == { <<>>, << "a" >>, << "b" >>, << "a", ".", "x" >>, << "/" >> }

\* the 'id' member of a request: absent (None) or a number
RequestIds == { <<>>, << 1 >> }

\* the instants, in seconds, at which the clock is looked at: they lie 0, 1,
\* 10 and 11 seconds apart, below, on and above the threshold
TimePoints == { 0, 10, 11 }

\* the 'prompt' argument: absent or a text
Prompts == { <<>>, << "p" >> }

\* the 'timeout' argument of codex_execute: absent or seconds
Timeouts == { <<>>, << 1 >> }

\* what the background process may append to its stdout and its stderr
StdoutChunks == { << "a" >> }

StderrChunks == { << "codex", "\n", "b", "tokens used" >> }

\* what the process of a synchronous call may leave on stdout and stderr
SyncOutputs ==
    { [stdout |-> << "hello" >>, stderr |-> <<>>],
      [stdout |-> <<>>, stderr |-> << "b" >>],
      [stdout |-> << " " >>, stderr |-> << "codex", "\n", "a", "tokens used" >>] }

KnownTools == {"codex_execute", "codex_execute_async", "codex_check_result"}

\* an input line after line.strip().  shape: "blank", "invalid" (json.loads
\* raises JSONDecodeError), "scalar" (JSON that is no object) or "object".
\* params and arguments: "absent", "null" or "object".  task_id: <<>> when
\* the key is absent, else << the string >>.
BaseLine ==
    [shape |-> "object", id |-> <<>>, method |-> None, params |-> "absent",
     name |-> None, arguments |-> "absent", task_id |-> <<>>,
     prompt |-> <<>>, timeout |-> <<>>]

CallLine(id, name) ==
    [BaseLine EXCEPT !.id = id, !.method = "tools/call", !.params = "object",
                     !.name = name, !.arguments = "object"]

Lines ==
    { [BaseLine EXCEPT !.shape = sh] : sh \in {"blank", "invalid", "scalar"} }
    \cup { [BaseLine EXCEPT !.id = id, !.method = m] :
             id \in RequestIds,
             m \in {"initialize", "tools/list", "tools/call", "bogus"} }
    \cup { [BaseLine EXCEPT !.id = id, !.method = "tools/call", !.params = "null"] :
             id \in RequestIds }
    \cup { CallLine(id, "bogus") : id \in RequestIds }
    \cup { [CallLine(id, n) EXCEPT !.arguments = "null"] :
             id \in RequestIds, n \in KnownTools }
    \cup { [CallLine(id, "codex_check_result") EXCEPT !.arguments = "absent"] :
             id \in RequestIds }
    \cup { [CallLine(id, "codex_execute") EXCEPT !.prompt = p, !.timeout = t] :
             id \in RequestIds, p \in Prompts, t \in Timeouts }
    \cup { [CallLine(id, "codex_execute_async") EXCEPT !.prompt = p] :
             id \in RequestIds, p \in Prompts }
    \cup { [CallLine(id, "codex_check_result") EXCEPT !.task_id = << s >>] :
             id \in RequestIds, s \in IdStrings }

\* the lines of a client that only launches tasks and checks them
TaskLines ==
    { line \in Lines : /\ line.name \in {"codex_execute_async", "codex_check_result"}
                       /\ line.arguments = "object"
                       /\ line.id = << 1 >> }

\* ----------------------------------------------------------------- state

VARIABLES
    now,        \* time.time(), in seconds
    codex,      \* TRUE when the 'codex' executable can be started
    captures,   \* << stem, "stdout" | "stderr" >> -> [content, mtime]
    metas,      \* stem -> the metadata record of the '.meta' file
    procs,      \* the background processes, by pid
    pc,         \* where the server is
    loc,        \* the locals of the handler that is running
    req,        \* the line the server read last
    resp,       \* the response line the step just taken wrote, if any
    written,    \* response lines written since req was read
    chk         \* what the status check of req found when it began

vars == << now, codex, captures, metas, procs, pc, loc, req, resp, written,
           chk >>

\* the task directory and the processes
Store == << captures, metas, procs >>

\* the exchange of the line read last
Exchange == << req, resp, written, chk >>

NoLine == [BaseLine EXCEPT !.shape = "none"]

NoLoc ==
    [task_id |-> <<>>, stem |-> <<>>, metadata |-> <<>>, latest_mtime |-> 0,
     stdout |-> <<>>, started |-> 0]

NoCheck == [stem |-> <<>>, quiet |-> FALSE, fresh |-> FALSE, status |-> None]

NoResponse ==
    [kind |-> "none", id |-> <<>>, code |-> 0, tag |-> "none",
     task_id |-> <<>>, elapsed |-> 0, command |-> <<>>, text |-> <<>>]

\* the envelope  {'jsonrpc': '2.0', 'id': ..., 'result': {...}}
ResultResponse(id, tag) ==
    [NoResponse EXCEPT !.kind = "result", !.id = id, !.tag = tag]

\* the envelope  {'jsonrpc': '2.0', 'id': ..., 'error': {'code': ...}}
ErrorResponse(id, code) ==
    [NoResponse EXCEPT !.kind = "error", !.id = id, !.code = code, !.tag = "error"]

\* lines 17-18 and 397-398: an empty task directory, the server about to
\* read its first line
Init ==
    /\ now = 0
    /\ codex \in BOOLEAN
    /\ captures = <<>>
    /\ metas = <<>>
    /\ procs = <<>>
    /\ pc = "read"
    /\ loc = NoLoc
    /\ req = NoLine
    /\ resp = NoResponse
    /\ written = 0
    /\ chk = NoCheck

\* ------------------------------------------------------------- the store

CaptureKinds == {"stdout", "stderr"}

\* Path.exists() of task_path.with_suffix('.' + kind)
CaptureExists(stem, kind) == << stem, kind >> \in DOMAIN captures

\* meta_file.exists()
MetaExists(stem) == stem \in DOMAIN metas

\* lines 112-115: the latest modification time of the captures that exist,
\* 0 standing for one that does not
LatestMtime(stem) ==
    Max({0} \cup {captures[<< stem, k >>].mtime :
                     k \in {kk \in CaptureKinds : CaptureExists(stem, kk)}})

\* is_running without the comparison with the threshold
IsRunningNoThreshold(stem, t) ==
    \E k \in CaptureKinds : CaptureExists(stem, k)

\* is_running that also wants some output in a capture
IsRunningNeedsOutput(stem, t) ==
    /\ \E k \in CaptureKinds :
          CaptureExists(stem, k) /\ captures[<< stem, k >>].content # <<>>
    /\ t - LatestMtime(stem) < IdleThreshold

\* is_running with the threshold itself counted as recent
IsRunningAtThreshold(stem, t) ==
    /\ \E k \in CaptureKinds : CaptureExists(stem, k)
    /\ t - LatestMtime(stem) <= IdleThreshold

\* lines 110-117: is_running at time t
IsRunning(stem, t) ==
    /\ \E k \in CaptureKinds : CaptureExists(stem, k)
    /\ t - LatestMtime(stem) < IdleThreshold

\* read_text() of a capture, "" for one that does not exist
ReadCapture(stem, kind) ==
    IF CaptureExists(stem, kind) THEN captures[<< stem, kind >>].content ELSE <<>>

\* lines 56-57: open(path, 'w') creates or truncates both captures
OpenCaptures(stem, t) ==
    (<< stem, "stdout" >> :> [content |-> <<>>, mtime |-> t])
    @@ (<< stem, "stderr" >> :> [content |-> <<>>, mtime |-> t])
    @@ captures

\* lines 50-53 and 77: ' '.join(cmd)
BuildCommand(line) == << "codex", "exec" >> \o line.prompt

\* metadata written without its status
LaunchMetadataNoStatus(task_id, pid, cmd, t) ==
    [task_id |-> task_id, pid |-> pid, status |-> None,
     command |-> cmd, started_at |-> t, completed_at |-> <<>>]

\* lines 73-79: metadata; completed_at is <<>> while the key is missing
LaunchMetadata(task_id, pid, cmd, t) ==
    [task_id |-> task_id, pid |-> pid, status |-> "running",
     command |-> cmd, started_at |-> t, completed_at |-> <<>>]

\* a completion that also sets started_at anew
CompletedMetadataRestarts(metadata, t) ==
    [metadata EXCEPT !.status = "completed", !.completed_at = << t >>,
                     !.started_at = t]

\* a completion that keeps the completed_at of an earlier completion
CompletedMetadataKeepsFirst(metadata, t) ==
    [metadata EXCEPT !.status = "completed",
                     !.completed_at = IF @ = <<>> THEN << t >> ELSE @]

\* lines 139-140
CompletedMetadata(metadata, t) ==
    [metadata EXCEPT !.status = "completed", !.completed_at = << t >>]

\* the processes that hold the captures of a stem open
Writers(stem) == {p \in 1..Len(procs) : procs[p].stem = stem}

\* ------------------------------------------------------------- dispatch

\* main (lines 382-393) and handle_request (lines 176-372): the branch a
\* line takes.  "raise" is an exception that nothing catches: .get() on a
\* value that is no dict.
Branch(line) ==
    IF line.shape = "blank" THEN "blank"
    ELSE IF line.shape = "invalid" THEN "parse_error"
    ELSE IF line.shape = "scalar" THEN "raise"
    ELSE IF line.method = "initialize" THEN "initialize"
    ELSE IF line.method = "tools/list" THEN "tools/list"
    ELSE IF line.method = "tools/call"
    THEN IF line.params = "null" THEN "raise"
         ELSE IF line.params = "absent" \/ line.name \notin KnownTools
         THEN "unknown_tool"
         ELSE IF line.arguments = "null" THEN "raise"
         ELSE IF line.name = "codex_check_result"
         THEN IF line.arguments = "absent" \/ line.task_id \in { <<>>, << <<>> >> }
              THEN "invalid_params"
              ELSE "check"
         ELSE line.name
    ELSE "unknown_method"

\* a line read whether or not the handler of the one before has returned
ReadAnytime(line, observed) ==
    /\ req' = line
    /\ chk' = observed

\* for line in sys.stdin: the next line is read
Read(line, observed) ==
    /\ pc = "read"
    /\ req' = line
    /\ chk' = observed

\* send_response: one line on stdout
Send(r, before) ==
    /\ resp' = r
    /\ written' = before + 1

\* ------------------------------------------------- main and handle_request

\* lines 386-393
ParseErrorResponse(line) == ErrorResponse(<<>>, -32700)

\* lines 181-192
InitializeResponse(line) == ResultResponse(line.id, "initialize")

\* lines 195-270
ToolsListResponse(line) == ResultResponse(line.id, "tools/list")

\* lines 355-362
UnknownToolResponse(line) == ErrorResponse(line.id, -32601)

\* the error of an unknown method without the id of the request
UnknownMethodResponseNoId(line) == ErrorResponse(<<>>, -32601)

\* lines 365-372
UnknownMethodResponse(line) == ErrorResponse(line.id, -32601)

\* lines 326-333
InvalidParamsResponse(line) == ErrorResponse(line.id, -32602)

\* lines 290-296, 310-319 and 346-352: the text of a tool in a result
ToolResponse(id, tag, task_id, text) ==
    [ResultResponse(id, tag) EXCEPT !.task_id = task_id, !.text = text]

\* lines 378-380: a blank line is skipped
SkipBlank ==
    \E line \in Lines :
        /\ Branch(line) = "blank"
        /\ Read(line, NoCheck)
        /\ resp' = NoResponse
        /\ written' = 0
        /\ UNCHANGED << now, codex, Store, pc, loc >>

\* lines 385-393: json.loads raised JSONDecodeError
ParseError ==
    \E line \in Lines :
        /\ Branch(line) = "parse_error"
        /\ Read(line, NoCheck)
        /\ Send(ParseErrorResponse(line), 0)
        /\ UNCHANGED << now, codex, Store, pc, loc >>

\* an exception other than JSONDecodeError leaves main: the server exits
\* with a traceback and writes no response
Uncaught ==
    \E line \in Lines :
        /\ Branch(line) = "raise"
        /\ Read(line, NoCheck)
        /\ resp' = NoResponse
        /\ written' = 0
        /\ pc' = "crashed"
        /\ UNCHANGED << now, codex, Store, loc >>

\* lines 180-192
Initialize ==
    \E line \in Lines :
        /\ Branch(line) = "initialize"
        /\ Read(line, NoCheck)
        /\ Send(InitializeResponse(line), 0)
        /\ UNCHANGED << now, codex, Store, pc, loc >>

\* lines 194-270
ToolsList ==
    \E line \in Lines :
        /\ Branch(line) = "tools/list"
        /\ Read(line, NoCheck)
        /\ Send(ToolsListResponse(line), 0)
        /\ UNCHANGED << now, codex, Store, pc, loc >>

\* lines 354-362
UnknownTool ==
    \E line \in Lines :
        /\ Branch(line) = "unknown_tool"
        /\ Read(line, NoCheck)
        /\ Send(UnknownToolResponse(line), 0)
        /\ UNCHANGED << now, codex, Store, pc, loc >>

\* lines 364-372
UnknownMethod ==
    \E line \in Lines :
        /\ Branch(line) = "unknown_method"
        /\ Read(line, NoCheck)
        /\ Send(UnknownMethodResponse(line), 0)
        /\ UNCHANGED << now, codex, Store, pc, loc >>

\* lines 325-334: task_id is missing, None or ''
InvalidParams ==
    \E line \in Lines :
        /\ Branch(line) = "invalid_params"
        /\ Read(line, NoCheck)
        /\ Send(InvalidParamsResponse(line), 0)
        /\ UNCHANGED << now, codex, Store, pc, loc >>

\* ---------------------------------------------------------- call_codex_sync

\* lines 155-167: subprocess.run starts the process and waits for it
SyncStart ==
    \E line \in Lines :
        /\ Branch(line) = "codex_execute"
        /\ codex
        /\ Read(line, NoCheck)
        /\ resp' = NoResponse
        /\ written' = 0
        /\ pc' = "sync"
        /\ loc' = [NoLoc EXCEPT !.started = now]
        /\ UNCHANGED << now, codex, Store >>

\* lines 171-172 and 290-296: the process could not be started
SyncSpawnFails ==
    \E line \in Lines :
        /\ Branch(line) = "codex_execute"
        /\ ~codex
        /\ Read(line, NoCheck)
        /\ Send(ToolResponse(line.id, "sync", <<>>, << "Error calling Codex" >>), 0)
        /\ UNCHANGED << now, codex, Store, pc, loc >>

\* lines 168 and 290-296: the process exited
SyncExit ==
    /\ pc = "sync"
    /\ \E out \in SyncOutputs :
        Send(ToolResponse(req.id, "sync", <<>>,
                          extract_result_from_codex_output(out.stdout, out.stderr)),
             written)
    /\ pc' = "read"
    /\ loc' = NoLoc
    /\ UNCHANGED << now, codex, Store, req, chk >>

\* TimeoutExpired raised without the timeout having elapsed
SyncTimeoutNoWait ==
    /\ pc = "sync"
    /\ req.timeout # <<>>
    /\ Send(ToolResponse(req.id, "sync", <<>>,
                         << "Error: Codex execution timed out" >>), written)
    /\ pc' = "read"
    /\ loc' = NoLoc
    /\ UNCHANGED << now, codex, Store, req, chk >>

\* lines 169-170 and 290-296: TimeoutExpired
SyncTimeout ==
    /\ pc = "sync"
    /\ req.timeout # <<>>
    /\ now - loc.started >= req.timeout[1]
    /\ Send(ToolResponse(req.id, "sync", <<>>,
                         << "Error: Codex execution timed out" >>), written)
    /\ pc' = "read"
    /\ loc' = NoLoc
    /\ UNCHANGED << now, codex, Store, req, chk >>

\* -------------------------------------------------------- start_codex_async

\* lines 45-60: the id is drawn, both captures are opened for writing, and
\* Popen raises because the executable cannot be started; no handler
\* catches it
LaunchSpawnFails(L) ==
    \E line \in L, u \in Uuids :
        /\ Branch(line) = "codex_execute_async"
        /\ ~codex
        /\ Read(line, NoCheck)
        /\ resp' = NoResponse
        /\ written' = 0
        /\ captures' = OpenCaptures(Stem(TaskPath(u)), now)
        /\ pc' = "crashed"
        /\ UNCHANGED << now, codex, metas, procs, loc >>

\* lines 45-84 and 310-319: the id is drawn, both captures are opened for
\* writing, Popen starts the detached process, the metadata is written and
\* the id is returned
Launch(L) ==
    \E line \in L, u \in Uuids :
        /\ Branch(line) = "codex_execute_async"
        /\ codex
        /\ Read(line, NoCheck)
        /\ LET stem == Stem(TaskPath(u))
           IN  /\ captures' = OpenCaptures(stem, now)
               /\ procs' = Append(procs, [stem |-> stem, alive |-> TRUE,
                                          writes |-> 0])
               /\ metas' = (stem :> LaunchMetadata(u, Len(procs) + 1,
                                                   BuildCommand(line), now))
                             @@ metas
        /\ Send(ToolResponse(line.id, "started", u, <<>>), 0)
        /\ UNCHANGED << now, codex, pc, loc >>

\* --------------------------------------------------------- check_task_status

\* the background process of the task has exited and its captures have been
\* idle for more than the threshold
Quiet(stem) ==
    /\ Writers(stem) # {}
    /\ \A p \in Writers(stem) : ~procs[p].alive
    /\ now - LatestMtime(stem) > IdleThreshold

\* what a check of task_id finds when it begins: quiet as above; fresh when
\* task_id is the id its launch returned and less than the threshold has
\* passed since that launch; status, the persisted status
Observe(task_id, stem) ==
    [stem |-> stem,
     quiet |-> Quiet(stem),
     fresh |-> /\ metas[stem].task_id = task_id
               /\ now - metas[stem].started_at < IdleThreshold,
     status |-> metas[stem].status]

\* lines 122-127 and 340
RunningResponse(id, task_id, metadata, t) ==
    [ResultResponse(id, "running") EXCEPT
        !.task_id = task_id,
        !.elapsed = t - metadata.started_at,
        !.command = metadata.command]

\* lines 136, 144-149 and 342: metadata is the record just written
CompletedResponse(id, task_id, metadata, stdout, stderr) ==
    [ResultResponse(id, "completed") EXCEPT
        !.task_id = task_id,
        !.elapsed = metadata.completed_at[1] - metadata.started_at,
        !.text = extract_result_from_codex_output(stdout, stderr)]

\* lines 92-95 and 344
NotFoundResponse(id, task_id) ==
    ToolResponse(id, "not_found", task_id, << "Task", "not found" >>)

\* line 89: with_suffix raises ValueError for a path without a name
CheckRaises(L) ==
    \E line \in L :
        /\ Branch(line) = "check"
        /\ ~HasName(TaskPath(line.task_id[1]))
        /\ Read(line, NoCheck)
        /\ resp' = NoResponse
        /\ written' = 0
        /\ pc' = "crashed"
        /\ UNCHANGED << now, codex, Store, loc >>

\* lines 88-95 and 343-352: no metadata file
CheckNotFound(L) ==
    \E line \in L :
        /\ Branch(line) = "check"
        /\ HasName(TaskPath(line.task_id[1]))
        /\ ~MetaExists(Stem(TaskPath(line.task_id[1])))
        /\ Read(line, NoCheck)
        /\ Send(NotFoundResponse(line.id, line.task_id[1]), 0)
        /\ UNCHANGED << now, codex, Store, pc, loc >>

\* lines 88-127 and 339-352: the metadata is loaded and the modification
\* times say the task is running
CheckRunning(L) ==
    \E line \in L :
        /\ Branch(line) = "check"
        /\ HasName(TaskPath(line.task_id[1]))
        /\ LET stem == Stem(TaskPath(line.task_id[1]))
           IN  /\ MetaExists(stem)
               /\ IsRunning(stem, now)
               /\ Read(line, Observe(line.task_id[1], stem))
               /\ Send(RunningResponse(line.id, line.task_id[1], metas[stem], now),
                       0)
        /\ UNCHANGED << now, codex, Store, pc, loc >>

\* lines 88-119: the metadata is loaded and the modification times say the
\* task is over
CheckIdle(L) ==
    \E line \in L :
        /\ Branch(line) = "check"
        /\ HasName(TaskPath(line.task_id[1]))
        /\ LET stem == Stem(TaskPath(line.task_id[1]))
           IN  /\ MetaExists(stem)
               /\ ~IsRunning(stem, now)
               /\ Read(line, Observe(line.task_id[1], stem))
               /\ loc' = [NoLoc EXCEPT !.task_id = line.task_id[1],
                                       !.stem = stem,
                                       !.metadata = metas[stem],
                                       !.latest_mtime = LatestMtime(stem)]
        /\ resp' = NoResponse
        /\ written' = 0
        /\ pc' = "check_stdout"
        /\ UNCHANGED << now, codex, Store >>

\* line 133
CheckReadStdout ==
    /\ pc = "check_stdout"
    /\ loc' = [loc EXCEPT !.stdout = ReadCapture(loc.stem, "stdout")]
    /\ pc' = "check_stderr"
    /\ UNCHANGED << now, codex, Store, Exchange >>

\* a completed check that also stops the process of the task
CheckCompletedKills ==
    /\ pc = "check_stderr"
    /\ LET metadata == CompletedMetadata(loc.metadata, now)
       IN  /\ metas' = (loc.stem :> metadata) @@ metas
           /\ Send(CompletedResponse(req.id, loc.task_id, metadata, loc.stdout,
                                     ReadCapture(loc.stem, "stderr")),
                   written)
    /\ procs' = [p \in DOMAIN procs |->
                    IF procs[p].stem = loc.stem
                    THEN [procs[p] EXCEPT !.alive = FALSE]
                    ELSE procs[p]]
    /\ pc' = "read"
    /\ loc' = NoLoc
    /\ UNCHANGED << now, codex, captures, req, chk >>

\* lines 134-149 and 341-352: stderr is read, the result extracted, the
\* metadata rewritten
CheckCompleted ==
    /\ pc = "check_stderr"
    /\ LET metadata == CompletedMetadata(loc.metadata, now)
       IN  /\ metas' = (loc.stem :> metadata) @@ metas
           /\ Send(CompletedResponse(req.id, loc.task_id, metadata, loc.stdout,
                                     ReadCapture(loc.stem, "stderr")),
                   written)
    /\ pc' = "read"
    /\ loc' = NoLoc
    /\ UNCHANGED << now, codex, captures, procs, req, chk >>

\* ------------------------------------------------------------ environment

\* when no handler is running, a step of the environment ends the exchange
\* of the line read last: req, resp, written and chk describe an exchange
\* only in the states up to its response, or up to the exit of the server
Forget ==
    IF pc \in {"read", "crashed"}
    THEN /\ req' = NoLine
         /\ resp' = NoResponse
         /\ written' = 0
         /\ chk' = NoCheck
    ELSE UNCHANGED Exchange

\* the detached process appends to one of its captures; what it writes to a
\* capture that was removed from the directory is not seen under its path
ProcWrite ==
    \E p \in 1..Len(procs), k \in CaptureKinds :
        /\ procs[p].alive
        /\ procs[p].writes < MaxWrites
        /\ CaptureExists(procs[p].stem, k)
        /\ \E chunk \in (IF k = "stdout" THEN StdoutChunks ELSE StderrChunks) :
            captures' = [captures EXCEPT
                ![<< procs[p].stem, k >>] =
                    [content |-> @.content \o chunk, mtime |-> now]]
        /\ procs' = [procs EXCEPT ![p].writes = @ + 1]
        /\ Forget
        /\ UNCHANGED << now, codex, metas, pc, loc >>

\* the detached process exits on its own
ProcExit ==
    \E p \in 1..Len(procs) :
        /\ procs[p].alive
        /\ procs' = [procs EXCEPT ![p].alive = FALSE]
        /\ Forget
        /\ UNCHANGED << now, codex, captures, metas, pc, loc >>

\* time passes
Tick ==
    /\ \E t \in TimePoints : t > now /\ now' = t
    /\ Forget
    /\ UNCHANGED << codex, Store, pc, loc >>

\* lines 397-398: the server is started again after it exited; the task
\* directory is still there
Restart ==
    /\ pc = "crashed"
    /\ pc' = "read"
    /\ Forget
    /\ UNCHANGED << now, codex, Store, loc >>

\* the launch of the first task
LaunchFirst == procs = <<>> /\ Launch(Lines)

\* the launch of one more task, up to MaxLaunches
LaunchMore == Len(procs) < MaxLaunches /\ Launch(TaskLines)

\* one server, any input line, one background task
Next ==
    \/ SkipBlank
    \/ ParseError
    \/ Uncaught
    \/ Initialize
    \/ ToolsList
    \/ UnknownTool
    \/ UnknownMethod
    \/ InvalidParams
    \/ SyncStart
    \/ SyncSpawnFails
    \/ SyncExit
    \/ SyncTimeout
    \/ LaunchSpawnFails(Lines)
    \/ LaunchFirst
    \/ CheckRaises(Lines)
    \/ CheckNotFound(Lines)
    \/ CheckRunning(Lines)
    \/ CheckIdle(Lines)
    \/ CheckReadStdout
    \/ CheckCompleted
    \/ ProcWrite
    \/ ProcExit
    \/ Tick
    \/ Restart

Spec == Init /\ [][Next]_vars

\* one server, a client that launches and checks, several background tasks
NextTasks ==
    \/ LaunchSpawnFails(TaskLines)
    \/ LaunchMore
    \/ CheckRaises(TaskLines)
    \/ CheckNotFound(TaskLines)
    \/ CheckRunning(TaskLines)
    \/ CheckIdle(TaskLines)
    \/ CheckReadStdout
    \/ CheckCompleted
    \/ ProcWrite
    \/ ProcExit
    \/ Tick
    \/ Restart

SpecTasks == Init /\ [][NextTasks]_vars

\* ------------------------------------------- a task directory found at start

\* TASK_DIR outlives the server (line 18: mkdir(exist_ok=True)): a server
\* may start on the files of tasks launched by an earlier run, some of which
\* have been removed since.  StoredCaptures: what may be found of one
\* capture at time t: nothing, or a file written at or before t.
StoredCaptures(kind, t) ==
    { <<>> } \cup
    { << [content |-> c, mtime |-> m] >> :
        c \in { <<>> } \cup (IF kind = "stdout" THEN StdoutChunks ELSE StderrChunks),
        m \in {x \in TimePoints : x <= t} }

\* the captures of a stem as a directory
StoredDir(stem, so, se) ==
    [key \in {<< stem, k >> : k \in {kk \in CaptureKinds :
                  (IF kk = "stdout" THEN so ELSE se) # <<>>}} |->
        IF key[2] = "stdout" THEN so[1] ELSE se[1]]

\* the metadata of tasks launched at time 0 by an earlier run, as the last
\* check of that run left them
StoredMetas(task_id, pid) ==
    { LaunchMetadata(task_id, pid, << "codex", "exec" >>, 0),
      CompletedMetadata(LaunchMetadata(task_id, pid, << "codex", "exec" >>, 0),
                        IdleThreshold) }

\* the server starts, 10 seconds or more after these launches, on a
\* directory that holds task a, whose process runs or has exited, and
\* possibly task b, whose process has exited
InitStore ==
    /\ now \in {t \in TimePoints : t >= IdleThreshold}
    /\ codex = TRUE
    /\ \E ma \in StoredMetas(<< "a" >>, 1),
          so \in StoredCaptures("stdout", now),
          se \in StoredCaptures("stderr", now),
          other \in BOOLEAN :
            LET a == Stem(TaskPath(<< "a" >>))
                b == Stem(TaskPath(<< "b" >>))
            IN  /\ metas = IF other
                           THEN (a :> ma) @@
                                (b :> LaunchMetadata(<< "b" >>, 2, << "codex", "exec" >>, 0))
                           ELSE (a :> ma)
                /\ captures = IF other
                              THEN StoredDir(a, so, se) @@
                                   StoredDir(b, << [content |-> <<>>, mtime |-> 0] >>,
                                                << [content |-> <<>>, mtime |-> 0] >>)
                              ELSE StoredDir(a, so, se)
    /\ \E alive \in BOOLEAN :
          procs = << [stem |-> Stem(TaskPath(<< "a" >>)), alive |-> alive,
                      writes |-> 0] >>
    /\ pc = "read"
    /\ loc = NoLoc
    /\ req = NoLine
    /\ resp = NoResponse
    /\ written = 0
    /\ chk = NoCheck

\* one server, a client that checks the tasks it finds
NextStore ==
    \/ CheckRaises(TaskLines)
    \/ CheckNotFound(TaskLines)
    \/ CheckRunning(TaskLines)
    \/ CheckIdle(TaskLines)
    \/ CheckReadStdout
    \/ CheckCompleted
    \/ ProcWrite
    \/ ProcExit
    \/ Tick
    \/ Restart

SpecStore == InitStore /\ [][NextStore]_vars

\* ------------------------------------------- the extraction on given texts

\* the tokens a stderr text is made of
StderrTokens == {"codex", "\n", "b", "tokens used"}

\* every stderr text of up to MaxLen tokens
StderrTexts == UNION {[1..n -> StderrTokens] : n \in 0..MaxLen}

\* stdout texts: empty, whitespace only, a word inside whitespace
StdoutTexts == { <<>>, << "\n" >>, << "\n", "a", " " >> }

\* the check lines for task a
ExtractLines ==
    {line \in TaskLines : Branch(line) = "check" /\ line.task_id = << << "a" >> >>}

\* task a was launched at time 0, its process has exited leaving any stdout
\* and any stderr text, and 10 seconds have passed
InitExtract ==
    /\ now = IdleThreshold
    /\ codex = TRUE
    /\ \E so \in StdoutTexts, se \in StderrTexts :
          captures = StoredDir(Stem(TaskPath(<< "a" >>)),
                               << [content |-> so, mtime |-> 0] >>,
                               << [content |-> se, mtime |-> 0] >>)
    /\ metas = (Stem(TaskPath(<< "a" >>)) :>
                   LaunchMetadata(<< "a" >>, 1, << "codex", "exec" >>, 0))
    /\ procs = << [stem |-> Stem(TaskPath(<< "a" >>)), alive |-> FALSE,
                   writes |-> 0] >>
    /\ pc = "read"
    /\ loc = NoLoc
    /\ req = NoLine
    /\ resp = NoResponse
    /\ written = 0
    /\ chk = NoCheck

\* the status checks that hand the two texts to the extraction
NextExtract ==
    \/ CheckIdle(ExtractLines)
    \/ CheckReadStdout
    \/ CheckCompleted

SpecExtract == InitExtract /\ [][NextExtract]_vars

\* ------------------------------------------------------------------ claims

\* C1: when a status check begins after the background process of the task
\* has exited and more than 10 seconds after the last write to its
\* captures, the check goes on to report completed with a non-empty result
\* text, and the metadata then has status completed.
C1_QuietCheckCompletes ==
    chk.quiet =>
        \/ pc \in {"check_stdout", "check_stderr"}
        \/ /\ pc = "read"
           /\ resp.kind = "result"
           /\ resp.tag = "completed"
           /\ resp.text # <<>>
           /\ metas[chk.stem].status = "completed"

C1_Witness ==
    /\ chk.quiet
    /\ pc = "read"
    /\ resp.tag = "completed"

\* C2: a status check never reports running for a task whose metadata
\* already has status completed, that is, after an earlier check reported
\* completed.
C2_CompletedNeverRunsAgain ==
    resp.tag = "running" => metas[chk.stem].status # "completed"

\* C3: a launch returns a task id for which no capture and no metadata
\* existed before the launch.
C3_LaunchIdIsFresh ==
    [][resp'.tag = "started" =>
          LET stem == Stem(TaskPath(resp'.task_id))
          IN  /\ ~MetaExists(stem)
              /\ \A k \in CaptureKinds : ~CaptureExists(stem, k)]_vars

\* C4: a tools/call of one of the three tools with usable arguments is
\* answered with a result, never with an error object and never with the
\* exit of the server, whatever goes wrong with the external process or
\* with the task id.
C4_ToolFailureIsResult ==
    Branch(req) \in {"codex_execute", "codex_execute_async", "check"} =>
        /\ pc # "crashed"
        /\ (pc = "read" => resp.kind = "result" /\ written = 1)

\* C5: every task id that has a capture has metadata too.
C5_CapturesHaveMetadata ==
    \A key \in DOMAIN captures : MetaExists(key[1])

\* C6: in the state in which a launch has returned its task id, both
\* captures and the metadata of that id exist and the metadata records the
\* id, status running and started_at, the time of the launch.
C6_ReturnedIdHasArtifacts ==
    resp.tag = "started" =>
        LET stem == Stem(TaskPath(resp.task_id))
        IN  /\ \A k \in CaptureKinds : CaptureExists(stem, k)
            /\ MetaExists(stem)
            /\ metas[stem].task_id = resp.task_id
            /\ metas[stem].status = "running"
            /\ metas[stem].started_at = now

C6_Witness ==
    /\ resp.tag = "started"
    /\ resp.kind = "result"
    /\ MetaExists(Stem(TaskPath(resp.task_id)))

\* C7: for every non-blank line the server writes exactly one response
\* line and is then ready to read the next line.
C7_OneResponsePerLine ==
    req.shape \notin {"none", "blank"} =>
        /\ pc # "crashed"
        /\ written <= 1
        /\ (pc = "read" => written = 1)

\* C8: a status check with a task_id string that belongs to no launched
\* task, the empty string included, is answered with the result text of
\* not_found.
C8_UnknownIdIsNotFound ==
    ( /\ req.shape = "object"
      /\ req.method = "tools/call"
      /\ req.params = "object"
      /\ req.name = "codex_check_result"
      /\ req.arguments = "object"
      /\ req.task_id # <<>>
      /\ \A stem \in DOMAIN metas : metas[stem].task_id # req.task_id[1] )
    => /\ pc = "read"
       /\ resp.kind = "result"
       /\ resp.tag = "not_found"

\* the lines C9 is about
SyntaxInvalid(line) == line.shape = "invalid"

MethodUnknown(line) ==
    /\ line.shape = "object"
    /\ line.method \notin {"initialize", "tools/list", "tools/call"}

ToolUnknown(line) ==
    /\ line.shape = "object"
    /\ line.method = "tools/call"
    /\ line.params = "object"
    /\ line.name \notin KnownTools

TaskIdMissing(line) ==
    /\ line.shape = "object"
    /\ line.method = "tools/call"
    /\ line.params = "object"
    /\ line.name = "codex_check_result"
    /\ line.arguments \in {"absent", "object"}
    /\ line.task_id = <<>>

\* the step answers with this error object and changes neither the task
\* directory nor a process, and no status check is made
RejectedWith(id, code) ==
    /\ resp' = ErrorResponse(id, code)
    /\ written' = 1
    /\ pc' = "read"
    /\ chk' = NoCheck
    /\ UNCHANGED << captures, metas, procs >>

\* C9: a line that is no JSON is answered with error -32700 and id null; an
\* unknown method and an unknown tool with error -32601 and the id of the
\* request; a codex_check_result call without task_id with error -32602 and
\* the id of the request, without a status check; none of them changes the
\* task directory or a process.
C9_ProtocolErrors ==
    [][/\ SyntaxInvalid(req') => RejectedWith(<<>>, -32700)
       /\ MethodUnknown(req') => RejectedWith(req'.id, -32601)
       /\ ToolUnknown(req') => RejectedWith(req'.id, -32601)
       /\ TaskIdMissing(req') => RejectedWith(req'.id, -32602)]_vars

C9_Witness ==
    /\ TaskIdMissing(req)
    /\ req.id = << 1 >>
    /\ resp.kind = "error"
    /\ resp.id = << 1 >>
    /\ resp.code = -32602
    /\ metas # <<>>

\* C10: a status check of the id a launch returned, begun less than 10
\* seconds after that launch, reports running with elapsed_seconds >= 0 and
\* the command stored at the launch, whether or not the background process
\* has exited or written.
C10_FreshCheckIsRunning ==
    chk.fresh =>
        /\ pc = "read"
        /\ resp.kind = "result"
        /\ resp.tag = "running"
        /\ resp.task_id = metas[chk.stem].task_id
        /\ resp.elapsed >= 0
        /\ resp.elapsed = now - metas[chk.stem].started_at
        /\ resp.command = metas[chk.stem].command

C10_Witness ==
    /\ chk.fresh
    /\ resp.tag = "running"
    /\ \E p \in Writers(chk.stem) : ~procs[p].alive /\ procs[p].writes > 0

\* the text call_codex_sync returns after TimeoutExpired
TimedOutText == << "Error: Codex execution timed out" >>

\* C11: the step that reads a codex_execute_async line starts the process,
\* writes the response with the task id and is ready for the next line
\* while that process is still running; the step that reads a codex_execute
\* line writes nothing, and the response of codex_execute is written only
\* from the wait for its subprocess, the timeout text only when the timeout
\* has elapsed.
C11_AsyncReturnsSyncWaits ==
    [][/\ (pc = "read" /\ codex /\ Branch(req') = "codex_execute_async")
            => /\ resp'.tag = "started"
               /\ written' = 1
               /\ pc' = "read"
               /\ Len(procs') = Len(procs) + 1
               /\ procs'[Len(procs')].alive
       /\ (pc = "read" /\ codex /\ Branch(req') = "codex_execute")
            => /\ pc' = "sync"
               /\ written' = 0
               /\ resp'.kind = "none"
       /\ (codex /\ resp'.tag = "sync" /\ written' # written)
            => /\ pc = "sync"
               /\ pc' = "read"
               /\ resp'.text = TimedOutText
                    => /\ req.timeout # <<>>
                       /\ now - loc.started >= req.timeout[1]]_vars

\* a synchronous call is answered, by its timeout, while the background
\* process launched before it is still running and has written nothing
C11_Witness ==
    /\ resp.tag = "sync"
    /\ resp.text = TimedOutText
    /\ pc = "read"
    /\ \E p \in 1..Len(procs) : procs[p].alive /\ procs[p].writes = 0

\* a step in which neither the dispatcher nor the exit of the server takes
\* part: the server stays where it is and nothing is read or written
NoServerStep ==
    /\ pc' = pc
    /\ loc' = loc
    /\ pc \in {"read", "crashed"} => req' = NoLine /\ written' = 0
    /\ written' <= written

\* C12: a background process goes from running to exited only in a step of
\* its own: never in a step in which the server reads a line, goes on with a
\* handler, writes a response, exits or is started again.
C12_ProcessesExitOnTheirOwn ==
    [][\A p \in 1..Len(procs) :
          /\ p <= Len(procs')
          /\ (procs[p].alive /\ ~procs'[p].alive) => NoServerStep]_vars

\* a check has reported completed, and the server has exited after a
\* later line, while the background process of the task is still running
C12_Witness ==
    /\ pc = "crashed"
    /\ \E stem \in DOMAIN metas :
          /\ metas[stem].status = "completed"
          /\ \E p \in Writers(stem) : procs[p].alive

\* a handler has been entered and has not returned
InFlight == pc \in {"sync", "check_stdout", "check_stderr"}

\* C13: while the handler of a line is running no other line is read and
\* nothing has been written for it yet; a response is written for the line
\* in flight, carries its id, and ends its handling; and a line is read only
\* when the line before it, unless blank, has its response.
C13_OneRequestAtATime ==
    [][/\ InFlight => /\ written = 0
                      /\ req' = req
                      /\ chk' = chk
       /\ written' > written
            => /\ written' = 1
               /\ pc' = "read"
               /\ resp'.kind # "none"
               /\ resp'.id = req'.id \/ Branch(req') = "parse_error"
       /\ (pc = "read" /\ req' # NoLine /\ req.shape \notin {"none", "blank"})
            => written = 1]_vars

\* a check that went through its reads is answered with the id of its
\* request while a background process is running
C13_Witness ==
    /\ pc = "read"
    /\ resp.tag = "completed"
    /\ req.id = << 1 >>
    /\ resp.id = << 1 >>
    /\ written = 1
    /\ \E p \in 1..Len(procs) : procs[p].alive

\* the status check of this line gets as far as the liveness inspection
Inspects(line) ==
    /\ Branch(line) = "check"
    /\ HasName(TaskPath(line.task_id[1]))
    /\ MetaExists(Stem(TaskPath(line.task_id[1])))

\* some capture of the stem exists and was modified less than 10 seconds ago
RecentlyWritten(stem) ==
    \E k \in CaptureKinds :
        /\ << stem, k >> \in DOMAIN captures
        /\ now - captures[<< stem, k >>].mtime < IdleThreshold

\* C14: a status check of an id that has metadata reports running exactly
\* when a capture of the task exists and the latest modification of the
\* existing captures is less than 10 seconds old; in every other case, an
\* idle time of exactly 10 seconds and the absence of both captures
\* included, it goes on to report completed.  Neither the persisted status
\* nor the process counts.
C14_RunningIffRecentWrite ==
    [][/\ (pc = "read" /\ Inspects(req'))
            => IF RecentlyWritten(Stem(TaskPath(req'.task_id[1])))
               THEN resp'.tag = "running" /\ pc' = "read"
               ELSE resp'.kind = "none" /\ pc' = "check_stdout"
       /\ (pc = "check_stdout" /\ pc' # pc) => pc' = "check_stderr"
       /\ (pc = "check_stderr" /\ pc' # pc)
            => resp'.tag = "completed" /\ pc' = "read"]_vars

\* completed is reported for a task without captures whose process is
\* running and whose persisted status was running
C14_Witness ==
    /\ resp.tag = "completed"
    /\ pc = "read"
    /\ \A k \in CaptureKinds : ~CaptureExists(chk.stem, k)
    /\ \E p \in Writers(chk.stem) : procs[p].alive

\* C15: what a status check reads from a capture was written no later than
\* the modification time on which the check judged the task idle.
C15_ReadsWhatItJudged ==
    [][/\ (pc = "check_stdout" /\ pc' = "check_stderr"
            /\ CaptureExists(loc.stem, "stdout"))
            => captures[<< loc.stem, "stdout" >>].mtime <= loc.latest_mtime
       /\ (pc = "check_stderr" /\ pc' = "read"
            /\ CaptureExists(loc.stem, "stderr"))
            => captures[<< loc.stem, "stderr" >>].mtime <= loc.latest_mtime]_vars

\* a step of a status check: the line of a check is read, or the check goes on
CheckStep ==
    \/ pc = "read" /\ Branch(req') = "check"
    \/ pc \in {"check_stdout", "check_stderr"} /\ pc' # pc

\* the step in which a check writes the metadata and reports completed
Completing == pc = "check_stderr" /\ pc' = "read"

\* C16: no step of a status check changes a capture, a process or the set of
\* files; every step but the completing one leaves all metadata as it is;
\* the completing step changes, of the metadata it loaded, only status (to
\* completed) and completed_at, and no other metadata; a status that is
\* completed stays completed.
C16_ChecksOnlyComplete ==
    [][CheckStep =>
         /\ captures' = captures
         /\ procs' = procs
         /\ DOMAIN metas' = DOMAIN metas
         /\ ~Completing => metas' = metas
         /\ Completing =>
              /\ resp'.tag = "completed"
              /\ \A stem \in DOMAIN metas :
                    IF stem = loc.stem
                    THEN /\ metas'[stem].status = "completed"
                         /\ metas'[stem] =
                              [metas[stem] EXCEPT
                                  !.status = "completed",
                                  !.completed_at = metas'[stem].completed_at]
                    ELSE metas'[stem] = metas[stem]
         /\ \A stem \in DOMAIN metas :
              metas[stem].status = "completed" => metas'[stem].status = "completed"]_vars

\* task a has been reported completed while the directory holds task b,
\* whose metadata is as its launch wrote it
C16_Witness ==
    /\ resp.tag = "completed"
    /\ pc = "read"
    /\ chk.stem = Stem(TaskPath(<< "a" >>))
    /\ MetaExists(Stem(TaskPath(<< "b" >>)))
    /\ metas[Stem(TaskPath(<< "b" >>))].status = "running"
    /\ metas[chk.stem].started_at = 0

\* C17: the step in which a check reports completed stores the time of the
\* check as completed_at, whatever the persisted status was, and reports as
\* elapsed_seconds the seconds from started_at to that completed_at; the
\* stored completed_at never goes back.
C17_CompletedAtIsCheckTime ==
    [][(pc = "check_stderr" /\ pc' = "read") =>
         /\ metas'[loc.stem].completed_at = << now >>
         /\ resp'.elapsed = now - metas'[loc.stem].started_at
         /\ resp'.elapsed >= 0
         /\ metas[loc.stem].completed_at # <<>>
              => metas'[loc.stem].completed_at[1] >= metas[loc.stem].completed_at[1]]_vars

\* a task already persisted as completed is checked again, later, and is
\* reported completed with completed_at and elapsed_seconds of this check
C17_Witness ==
    /\ resp.tag = "completed"
    /\ pc = "read"
    /\ chk.status = "completed"
    /\ now > IdleThreshold
    /\ metas[chk.stem].completed_at = << now >>
    /\ resp.elapsed = now

\* the two texts of the task just reported completed
GivenStdout == ReadCapture(chk.stem, "stdout")

GivenStderr == ReadCapture(chk.stem, "stderr")

\* the places of stderr at which the token codex is followed by a newline
Markers(text) ==
    {i \in 1..Len(text) : i < Len(text) /\ text[i] = "codex" /\ text[i + 1] = "\n"}

\* the whitespace-free ends of a text are where stripping has to stop
Trimmed(text) ==
    text = <<>> \/ (text[1] \notin Whitespace /\ text[Len(text)] \notin Whitespace)

\* text is what is left of some stretch of stderr that begins right after a
\* marker, once leading and trailing whitespace is dropped
FromAfterMarker(text, stderr) ==
    \E i \in Markers(stderr) :
        \E lo \in (i + 2)..Len(stderr), hi \in (i + 2)..Len(stderr) :
            /\ text = SubSeq(stderr, lo, hi)
            /\ \A j \in (i + 2)..(lo - 1) : stderr[j] \in Whitespace

\* C18: the extracted result is never empty; when stdout holds more than
\* whitespace it is stdout without its leading and trailing whitespace,
\* whatever stderr holds; otherwise it is either text that follows a marker
\* in stderr, trimmed and not empty, or the fallback; it is the fallback
\* when stderr has no marker or when only whitespace follows the first
\* marker up to the phrase or the end; it is not the fallback when the
\* first marker is followed by text.
C18_ExtractionPriority ==
    resp.tag = "completed" =>
        LET out == resp.text
            inner == {i \in 1..Len(GivenStdout) : GivenStdout[i] \notin Whitespace}
        IN  /\ out # <<>>
            /\ Trimmed(out)
            /\ inner # {} => out = SubSeq(GivenStdout, Min(inner), Max(inner))
            /\ inner = {} =>
                 /\ out = NoOutput \/ FromAfterMarker(out, GivenStderr)
                 /\ Markers(GivenStderr) = {} => out = NoOutput
                 /\ Markers(GivenStderr) # {} =>
                      LET first == Min(Markers(GivenStderr)) + 2
                      IN  /\ first > Len(GivenStderr) => out = NoOutput
                          /\ ( /\ first <= Len(GivenStderr)
                               /\ GivenStderr[first] \notin Whitespace )
                               => out # NoOutput /\ out[1] = GivenStderr[first]
                          /\ ( /\ first < Len(GivenStderr)
                               /\ GivenStderr[first] \in Whitespace
                               /\ GivenStderr[first + 1] = "tokens used" )
                               => out = NoOutput

\* stdout is whitespace only, the first marker of stderr is followed by
\* whitespace and then the phrase: the fallback is reported
C18_Witness ==
    /\ resp.tag = "completed"
    /\ GivenStdout = << "\n" >>
    /\ GivenStderr = << "codex", "\n", "\n", "tokens used", "b" >>
    /\ resp.text = NoOutput

\* the text between the last marker of stderr and the phrase that follows
\* it, or the end of stderr
LastSegment(stderr) ==
    LET i == Max(Markers(stderr))
        ends == {j \in (i + 2)..(Len(stderr) + 1) :
                    j = Len(stderr) + 1 \/ stderr[j] = "tokens used"}
    IN  SubSeq(stderr, i + 2, Min(ends) - 1)

\* C19: when stdout is empty and stderr has a marker, the result is the
\* trimmed text between the last marker and the phrase that follows it.
C19_LastSegmentIsKept ==
    ( /\ resp.tag = "completed"
      /\ GivenStdout = <<>>
      /\ Markers(GivenStderr) # {}
      /\ Strip(LastSegment(GivenStderr)) # <<>> )
    => resp.text = Strip(LastSegment(GivenStderr))

\* C20: a status check with a task_id string that is a file name and that
\* no launch has returned reports not_found, without loading the metadata
\* of a launched task.
C20_OnlyLaunchedIdsResolve ==
    ( /\ Branch(req) = "check"
      /\ HasName(TaskPath(req.task_id[1]))
      /\ \A stem \in DOMAIN metas : metas[stem].task_id # req.task_id[1] )
    => /\ pc = "read"
       /\ resp.tag = "not_found"
       /\ chk = NoCheck

====
